---- MODULE Spec2Model ----
(***************************************************************************)
(* Model of the alerts detection system: AlertDetector.get_alerts_table    *)
(* (src/modules/alert_detector.py) and the helpers it calls.               *)
(*                                                                         *)
(* Numbers.  Every Python number is modelled as an integer count of        *)
(* 1/Scale units, Scale = 10^(Decimals+1), so that round(x, 3) is a real   *)
(* conversion (one more decimal digit than the rounding keeps).            *)
(* Python values are records [ty, v, s]: ty is "float", "int", "str",      *)
(* "nan" or "unbound" (a local variable that no statement has assigned).   *)
(* Text is a sequence of one-character strings.                            *)
(***************************************************************************)
EXTENDS Integers, Sequences, FiniteSets, TLC

\* ------------------------------------------------------------------ bounds
MaxMetrics == 2

HistLen == 2

\* --------------------------------------------------------- number encoding
Decimals == 3

RECURSIVE Pow10(_)
Pow10(k) == IF k = 0 THEN 1 ELSE 10 * Pow10(k - 1)

Scale == Pow10(Decimals + 1)

Abs(n) == IF n < 0 THEN -n ELSE n

PyFloat(n) == [ty |-> "float", v |-> n, s |-> <<>>]

PyInt(n) == [ty |-> "int", v |-> n, s |-> <<>>]

PyStr(t) == [ty |-> "str", v |-> 0, s |-> t]

NaN == [ty |-> "nan", v |-> 0, s |-> <<>>]

Unbound == [ty |-> "unbound", v |-> 0, s |-> <<>>]

IsNum(x) == x.ty \in {"float", "int"}

\* pd.isna(real)
isna(x) == x.ty = "nan"

\* Python ==  between two values: numbers compare by value whatever their
\* type (1 == 1.0), text compares by content, NaN equals nothing.
PyEq(x, y) ==
    IF IsNum(x) /\ IsNum(y) THEN x.v = y.v
    ELSE IF x.ty = "str" /\ y.ty = "str" THEN x.s = y.s
    ELSE FALSE

\* round half to even of n to a multiple of unit (unit > 0)
RoundTo(n, unit) ==
    LET a == Abs(n)
        q == a \div unit
        r == a % unit
        up == (2 * r > unit) \/ (2 * r = unit /\ q % 2 = 1)
        m == (IF up THEN q + 1 ELSE q) * unit
    IN  IF n < 0 THEN -m ELSE m

\* round(x, 3) on a float
round3(x) == PyFloat(RoundTo(x.v, Scale \div Pow10(Decimals)))

\* int(round(x)) on a float
int_round(x) == PyInt(RoundTo(x.v, Scale))

\* int(x): truncation toward zero
int_trunc(x) == PyInt((IF x.v < 0 THEN -1 ELSE 1) * ((Abs(x.v) \div Scale) * Scale))

\* ------------------------------------------------------------------- text
Digits == <<"0", "1", "2", "3", "4", "5", "6", "7", "8", "9">>

\* int(d) for one character; defined on digits only (anything else raises)
DigitVal(c) == (CHOOSE i \in 1..10 : Digits[i] = c) - 1

RECURSIVE NatStr(_)
NatStr(n) == IF n < 10 THEN <<Digits[n + 1]>>
             ELSE NatStr(n \div 10) \o <<Digits[(n % 10) + 1]>>

\* the fractional digits of a float, as Python prints them: all Decimals+1
\* digits, then trailing zeros dropped down to one digit
RECURSIVE FracDigits(_, _)
FracDigits(f, width) ==
    IF width = 0 THEN <<>>
    ELSE FracDigits(f \div 10, width - 1) \o <<Digits[(f % 10) + 1]>>

RECURSIVE StripZeros(_)
StripZeros(t) ==
    IF Len(t) > 1 /\ t[Len(t)] = "0" THEN StripZeros(SubSeq(t, 1, Len(t) - 1))
    ELSE t

\* str(x), the element-wise effect of .astype(str)
str(x) ==
    IF x.ty = "str" THEN x.s
    ELSE IF x.ty = "nan" THEN <<"n", "a", "n">>
    ELSE LET sign == IF x.v < 0 THEN <<"-">> ELSE <<>>
             a == Abs(x.v)
         IN  IF x.ty = "int" THEN sign \o NatStr(a \div Scale)
             ELSE sign \o NatStr(a \div Scale) \o <<".">>
                       \o StripZeros(FracDigits(a % Scale, Decimals + 1))

\* number.split('.'): the pieces between the dots
RECURSIVE split_dot(_)
split_dot(t) ==
    IF \A i \in 1..Len(t) : t[i] # "." THEN <<t>>
    ELSE LET p == CHOOSE i \in 1..Len(t) : t[i] = "." /\ \A j \in 1..(i - 1) : t[j] # "."
         IN  <<SubSeq(t, 1, p - 1)>> \o split_dot(SubSeq(t, p + 1, Len(t)))

RECURSIVE digit_sum(_)
digit_sum(t) == IF t = <<>> THEN 0 ELSE DigitVal(Head(t)) + digit_sum(Tail(t))

remove_decimals_FirstDigit(number) ==
    LET number_split == split_dot(number)
    IN  IF Len(number_split) < 2 THEN number
        ELSE IF number_split[2] = <<>> \/ DigitVal(Head(number_split[2])) = 0
             THEN number_split[1]
        ELSE number

remove_decimals(number) ==
    LET number_split == split_dot(number)
    IN  IF Len(number_split) < 2 THEN number
        ELSE IF digit_sum(number_split[2]) = 0 THEN number_split[1]
        ELSE number

NoData == <<"N", "o", " ", "d", "a", "t", "a">>

MinusOne == <<"-", "1">>

\* m.replace('_', ' ')
replace_underscore(m) == [i \in 1..Len(m) |-> IF m[i] = "_" THEN " " ELSE m[i]]

\* ------------------------------------------------------------------ dates
Date(y, m, d) == [year |-> y, month |-> m, day |-> d]

IsLeap(y) == (y % 4 = 0) /\ ((y % 100 # 0) \/ (y % 400 = 0))

DaysInMonth(y, m) ==
    IF m = 2 THEN (IF IsLeap(y) THEN 29 ELSE 28)
    ELSE IF m \in {4, 6, 9, 11} THEN 30 ELSE 31

NextDay(dt) ==
    IF dt.day < DaysInMonth(dt.year, dt.month) THEN Date(dt.year, dt.month, dt.day + 1)
    ELSE IF dt.month < 12 THEN Date(dt.year, dt.month + 1, 1)
    ELSE Date(dt.year + 1, 1, 1)

PrevDay(dt) ==
    IF dt.day > 1 THEN Date(dt.year, dt.month, dt.day - 1)
    ELSE IF dt.month > 1 THEN Date(dt.year, dt.month - 1, DaysInMonth(dt.year, dt.month - 1))
    ELSE Date(dt.year - 1, 12, 31)

\* dt + timedelta(days = n) and dt - timedelta(days = n), n >= 0
RECURSIVE AddDays(_, _)
AddDays(dt, n) == IF n = 0 THEN dt ELSE AddDays(NextDay(dt), n - 1)

RECURSIVE SubDays(_, _)
SubDays(dt, n) == IF n = 0 THEN dt ELSE SubDays(PrevDay(dt), n - 1)

DateKey(dt) == (dt.year * 12 + (dt.month - 1)) * 31 + (dt.day - 1)

DateLE(a, b) == DateKey(a) <= DateKey(b)

\* (b - a).days for a <= b
RECURSIVE DaysBetween(_, _)
DaysBetween(a, b) == IF a = b THEN 0 ELSE 1 + DaysBetween(NextDay(a), b)

calculate_days_remaining_month_FirstOfNext(dt) ==
    LET first_day_next_month == AddDays(Date(dt.year, dt.month, 1), 31)
        last_day_current_month == SubDays(first_day_next_month, first_day_next_month.day - 1)
        remaining_days == DaysBetween(dt, last_day_current_month) + 1
    IN  <<remaining_days, last_day_current_month>>

\* AlertDetector.calculate_days_remaining_month, as <<remaining_days, last_day>>
calculate_days_remaining_month(dt) ==
    LET first_day_next_month == AddDays(Date(dt.year, dt.month, 1), 31)
        last_day_current_month == SubDays(first_day_next_month, first_day_next_month.day)
        remaining_days == DaysBetween(dt, last_day_current_month) + 1
    IN  <<remaining_days, last_day_current_month>>

\* ------------------------------------------------------------ input sets
\* the configured metric columns, in iteration order
MetricName(i) == <<"k", "_", Digits[i + 1]>>

Methods == {"prophet", "arima", "constraint"}

\* a method name that is none of the three known ones
OtherMethod == "sarima"

One == Scale

\* forecast values a backend may deliver: -1, 0, 0.0004, 1
ForecastValues == {-One, 0, 4, One}

\* actual values of the evaluation date: missing, -1.0004, -1, 0, 1, 1.5, 2
RealValues == {NaN} \cup {PyFloat(n) : n \in {-One - 4, -One, 0, One, One + (One \div 2), 2 * One}}

EvalDates == {Date(2024, 2, 28), Date(2023, 12, 31)}

\* a history column: entirely null, null then values, or values only
NullColumn == [i \in 1..HistLen |-> NaN]

ValueColumn(dtype, partial) ==
    [i \in 1..HistLen |-> IF partial /\ i = 1 THEN NaN
                          ELSE IF dtype = "int" THEN PyInt(One) ELSE PyFloat(One)]

\* one metric of a single-metric run, every decision input varied; a backend
\* delivers an interval whose lower end is not above its upper end
RichCfg ==
    {c \in [method : {"prophet", "arima"}, sendAlert : {"True", "False"},
            isRelated : {"True", "False"},
            column : {ValueColumn("int", FALSE), ValueColumn("float", FALSE),
                      ValueColumn("float", TRUE)},
            real : RealValues, yhat : ForecastValues, lo : ForecastValues,
            hi : ForecastValues, tail : {-One}] : c.lo <= c.hi}
    \cup
    [method : {"constraint", OtherMethod}, sendAlert : {"True", "False"},
     isRelated : {"True", "False"},
     column : {ValueColumn("int", FALSE), ValueColumn("float", FALSE),
               ValueColumn("float", TRUE)},
     real : RealValues, yhat : {One}, lo : {0}, hi : {2 * One},
     tail : {-One}]

\* one metric of a multi-metric run
SmallCfg ==
    [method : Methods \cup {OtherMethod}, sendAlert : {"True", "False"},
     isRelated : {"False"}, column : {ValueColumn("float", FALSE)},
     real : {NaN, PyFloat(0), PyFloat(One)}, yhat : {One}, lo : {0}, hi : {2 * One},
     tail : {-One + (One \div 2)}]
    \cup
    [method : {"prophet"}, sendAlert : {"True"},
     isRelated : {"False"}, column : {NullColumn},
     real : {PyFloat(One)}, yhat : {One}, lo : {0}, hi : {2 * One},
     tail : {-One + (One \div 2)}]

\* ----------------------------------------------------------------- state
VARIABLES
    data,              \* self.data: [date |-> column of dates, cols |-> metric name -> column]
    metrics,           \* self.data.drop('date').columns, in order
    date,              \* self.date
    real_value_table,  \* argument: metric name -> actual value of the evaluation date
    model_params,      \* argument: sequence of [kpi, method, isRelated, sendAlert]
    future_pred,       \* argument
    limsup_alert,      \* argument
    backend,           \* what the forecasting library returns: metric name -> [yhat, lo, hi, tail]
    pc,                \* "loop", "returned" or "raised"
    error,             \* the exception that ended the call, "" if none
    idx,               \* number of metrics the for loop has taken
    alerts_table,
    future_table,      \* [none |-> it is None, rows |-> its rows]
    pred, liminf, limsup, details, is_alert, pred_table,   \* locals of the loop body
    bound,             \* names of the loop-body locals assigned so far
    fit_calls,         \* metrics a forecasting backend was fitted for, in call order
    downloaded,        \* the script's frame after the download loop and the sort by date
    force_alert,       \* the script's --force-alert option
    only_alerts_table, \* the script's table of alerts for the email and the historical
    arg,               \* the argument of a helper called on its own
    ret,               \* what that call returned
    backend_fails,     \* the metrics for which the forecasting library raises
    metrics_info,      \* the configured metrics, each with what its source returns
    warehouse          \* the insert_rows calls made so far: [retries, last]

vars == <<data, metrics, date, real_value_table, model_params, future_pred, limsup_alert,
          backend, pc, error, idx, alerts_table, future_table,
          pred, liminf, limsup, details, is_alert, pred_table, bound, fit_calls,
          downloaded, force_alert, only_alerts_table, arg, ret,
          backend_fails, metrics_info, warehouse>>

\* the collaborators: the forecasting library, the sources and the warehouse
collab == <<backend_fails, metrics_info, warehouse>>

\* what get_alerts_table neither reads nor writes
script == <<downloaded, force_alert, only_alerts_table, arg, ret>>

inputs == <<data, metrics, date, real_value_table, model_params, future_pred, limsup_alert, backend>>

\* the history dates: the HistLen days before the evaluation date, ascending
HistoryDates(dt) == [i \in 1..HistLen |-> SubDays(dt, HistLen + 1 - i)]

\* state right after AlertDetector(data, plot, date) and at the entry of
\* get_alerts_table(real_value_table, model_params, future_pred, limsup_alert)
InitWith(cfgs, dt, fp, la) ==
    LET n == Len(cfgs)
        names == [i \in 1..n |-> MetricName(i)]
        at(m) == cfgs[CHOOSE i \in 1..n : names[i] = m]
        nameset == {names[i] : i \in 1..n}
    IN  /\ metrics = names
        /\ date = dt
        /\ data = [date |-> HistoryDates(dt), cols |-> [m \in nameset |-> at(m).column]]
        /\ real_value_table = [m \in nameset |-> at(m).real]
        /\ model_params = [i \in 1..n |-> [kpi |-> names[i], method |-> cfgs[i].method,
                                           isRelated |-> cfgs[i].isRelated,
                                           sendAlert |-> cfgs[i].sendAlert]]
        /\ backend = [m \in nameset |-> [yhat |-> at(m).yhat, lo |-> at(m).lo,
                                         hi |-> at(m).hi, tail |-> at(m).tail]]
        /\ future_pred = fp
        /\ limsup_alert = la
        /\ pc = "loop"
        /\ error = ""
        /\ idx = 0
        /\ alerts_table = <<>>
        /\ future_table = [none |-> FALSE, rows |-> <<>>]
        /\ pred = Unbound /\ liminf = Unbound /\ limsup = Unbound
        /\ details = "" /\ is_alert = Unbound /\ pred_table = <<>>
        /\ bound = {}
        /\ fit_calls = <<>>

\* no script around the call and no helper called on its own
NoScript ==
    /\ downloaded = <<>>
    /\ force_alert = FALSE
    /\ only_alerts_table = <<>>

NoCall ==
    /\ arg = <<>>
    /\ ret = <<>>

\* no download and no upload around the call
NoTransfer ==
    /\ metrics_info = <<>>
    /\ warehouse = <<>>

Init ==
    /\ NoScript
    /\ NoCall
    /\ NoTransfer
    /\ backend_fails = {}
    /\ \/ \E cfgs \in [1..1 -> RichCfg], la \in BOOLEAN :
              InitWith(cfgs, Date(2024, 2, 28), TRUE, la)
       \/ \E n \in 1..MaxMetrics : \E cfgs \in [1..n -> SmallCfg], dt \in EvalDates, fp \in BOOLEAN :
              InitWith(cfgs, dt, fp, TRUE)

\* ------------------------------------------------- forecasting backends
\* model_params.loc[model_params['kpi'] == m, <field>].values[0]
ParamRow(m) ==
    model_params[CHOOSE i \in 1..Len(model_params) :
                     /\ model_params[i].kpi = m
                     /\ \A j \in 1..(i - 1) : model_params[j].kpi # m]

\* one row of a backend's prediction table for metric m and day ds
PredRow(m, ds) ==
    IF ds = date
    THEN [ds |-> ds, yhat |-> PyFloat(backend[m].yhat),
          yhat_lower |-> PyFloat(backend[m].lo), yhat_upper |-> PyFloat(backend[m].hi)]
    ELSE [ds |-> ds, yhat |-> PyFloat(backend[m].tail),
          yhat_lower |-> PyFloat(backend[m].tail), yhat_upper |-> PyFloat(backend[m].tail)]

\* the periods days that follow the last day of the history
FutureDates(periods) ==
    [i \in 1..periods |-> AddDays(data.date[Len(data.date)], i)]

\* make_future_dataframe(periods = remaining_days) keeps the history days
get_prediction_PROPHET(m) ==
    LET remaining_days == calculate_days_remaining_month(date)[1]
        table_for_predictions == data.date \o FutureDates(remaining_days)
    IN  [i \in 1..Len(table_for_predictions) |-> PredRow(m, table_for_predictions[i])]

\* model.predict(n_periods = remaining_days): the future days only
get_prediction_ARIMA(m) ==
    LET remaining_days == calculate_days_remaining_month(date)[1]
        index == FutureDates(remaining_days)
    IN  [i \in 1..Len(index) |-> PredRow(m, index[i])]

\* ExtraStylesPreAlerts.do_nothing
do_nothing(table, metric, p, lo, hi) == <<p, lo, hi>>

\* the hooks get_alerts_table finds on ExtraStylesPreAlerts: do_nothing is
\* the only method of the class, so it is kept and applied
ApplyExtraStyles(table, metric, p, lo, hi) == do_nothing(table, metric, p, lo, hi)

\* ------------------------------------------------------ decision pieces
Zero == PyFloat(0)

\* Clamp without the "pred == 0" test on liminf
Clamp_NoZeroPred(p, lo, hi) ==
    LET p1 == IF p.v < 0 THEN Zero ELSE p
        lo1 == IF lo.v < 0 THEN Zero ELSE lo
        hi1 == IF hi.v < 0 THEN Zero ELSE hi
    IN  <<p1, lo1, hi1>>

\* lines 215-220: <<pred, liminf, limsup>> after the clamps
Clamp(p, lo, hi) ==
    LET p1 == IF p.v < 0 THEN Zero ELSE p
        lo1 == IF lo.v < 0 \/ p1.v = 0 THEN Zero ELSE lo
        hi1 == IF hi.v < 0 THEN Zero ELSE hi
    IN  <<p1, lo1, hi1>>

MissingDetails == "Missing data.**"

DecreasingDetails == "Decreasing tendency.*"

IncreasingDetails == "Increasing tendency.*"

NoAlertDetails == "No alert."

ConstraintDetails == "Constraint violated.***"

\* Decide with the upper limit tested whatever limsup_alert is
Decide_IgnoresFlag(real, lo, hi, la) ==
    IF isna(real)
    THEN [details |-> MissingDetails, is_alert |-> PyInt(One), real |-> PyFloat(-One)]
    ELSE IF real.v < lo.v
    THEN [details |-> DecreasingDetails, is_alert |-> PyInt(One), real |-> real]
    ELSE IF real.v > hi.v
    THEN [details |-> IncreasingDetails, is_alert |-> PyInt(One), real |-> real]
    ELSE [details |-> NoAlertDetails, is_alert |-> PyInt(0), real |-> real]

\* Decide with <= and >= in place of < and >
Decide_NonStrict(real, lo, hi, la) ==
    IF isna(real)
    THEN [details |-> MissingDetails, is_alert |-> PyInt(One), real |-> PyFloat(-One)]
    ELSE IF real.v <= lo.v
    THEN [details |-> DecreasingDetails, is_alert |-> PyInt(One), real |-> real]
    ELSE IF real.v >= hi.v /\ la
    THEN [details |-> IncreasingDetails, is_alert |-> PyInt(One), real |-> real]
    ELSE [details |-> NoAlertDetails, is_alert |-> PyInt(0), real |-> real]

\* lines 222-237: the decision of a numeric method
Decide(real, lo, hi, la) ==
    IF isna(real)
    THEN [details |-> MissingDetails, is_alert |-> PyInt(One), real |-> PyFloat(-One)]
    ELSE IF real.v < lo.v
    THEN [details |-> DecreasingDetails, is_alert |-> PyInt(One), real |-> real]
    ELSE IF real.v > hi.v /\ la
    THEN [details |-> IncreasingDetails, is_alert |-> PyInt(One), real |-> real]
    ELSE [details |-> NoAlertDetails, is_alert |-> PyInt(0), real |-> real]

\* isinstance(self.data[m].iloc[-1], int)
IsIntMetric(m) == data.cols[m][Len(data.cols[m])].ty = "int"

\* lines 239-246: <<real, pred, pred_table>> after the rounding
RoundValues(isint, real, p, pt) ==
    IF isint
    THEN <<int_trunc(real), int_round(p),
           [i \in 1..Len(pt) |-> [pt[i] EXCEPT !.yhat = int_round(pt[i].yhat)]]>>
    ELSE <<round3(real), round3(p), pt>>

Yes == <<"Y", "e", "s">>

No == <<"N", "o">>

Dash == <<"-">>

\* ConstraintDecide with the test of is_alert inverted
ConstraintDecide_Inverted(real) ==
    IF isna(real)
    THEN [details |-> MissingDetails, is_alert |-> PyInt(One), real |-> PyFloat(-One)]
    ELSE [details |-> IF real.v = 0 THEN ConstraintDetails ELSE NoAlertDetails,
          is_alert |-> real,
          real |-> IF real.v = One THEN PyStr(Yes) ELSE PyStr(No)]

\* lines 248-263: the constraint method
ConstraintDecide(real) ==
    IF isna(real)
    THEN [details |-> MissingDetails, is_alert |-> PyInt(One), real |-> PyFloat(-One)]
    ELSE [details |-> IF real.v # 0 THEN ConstraintDetails ELSE NoAlertDetails,
          is_alert |-> real,
          real |-> IF real.v = One THEN PyStr(Yes) ELSE PyStr(No)]

\* SendAlertOverride without the test of the missing-data sentinel
SendAlertOverride_NoSentinel(sendAlert, real, ia) ==
    IF sendAlert = "False" THEN PyInt(2 * One) ELSE ia

\* lines 265-267: the sendAlert override of is_alert
SendAlertOverride(sendAlert, real, ia) ==
    IF sendAlert = "False" /\ ~PyEq(real, PyFloat(-One)) THEN PyInt(2 * One) ELSE ia

\* lines 283-291: the rows a prediction table adds to future_table
ConcatTable_NoClamp(pt, m) ==
    LET kept == SelectSeq(pt, LAMBDA r : DateLE(date, r.ds))
    IN  [i \in 1..Len(kept) |->
            [Date |-> kept[i].ds, Prediction |-> kept[i].yhat, Metric |-> m]]

ConcatTable_AfterDate(pt, m) ==
    LET kept == SelectSeq(pt, LAMBDA r : DateLE(date, r.ds) /\ r.ds # date)
    IN  [i \in 1..Len(kept) |->
            [Date |-> kept[i].ds,
             Prediction |-> IF kept[i].yhat.v < 0 THEN [kept[i].yhat EXCEPT !.v = 0]
                            ELSE kept[i].yhat,
             Metric |-> m]]

ConcatTable(pt, m) ==
    LET kept == SelectSeq(pt, LAMBDA r : DateLE(date, r.ds))
    IN  [i \in 1..Len(kept) |->
            [Date |-> kept[i].ds,
             Prediction |-> IF kept[i].yhat.v < 0 THEN [kept[i].yhat EXCEPT !.v = 0]
                            ELSE kept[i].yhat,
             Metric |-> m]]

\* --------------------------------------------------- get_alerts_table
\* are_complete_null looking at the actual-value row in place of the history
are_complete_null_ActualRow(m) == isna(real_value_table[m])

\* self.data[m].isnull().all()
are_complete_null(m) == \A i \in 1..Len(data.cols[m]) : isna(data.cols[m][i])

\* the loop-body locals as they stand when an iteration starts; real is
\* assigned by every iteration before it is read
Cur ==
    [pred |-> pred, liminf |-> liminf, limsup |-> limsup, details |-> details,
     is_alert |-> is_alert, pred_table |-> pred_table, bound |-> bound,
     real |-> NaN, error |-> "", fit |-> fit_calls]

DecisionLocals == {"pred", "liminf", "limsup", "details", "is_alert"}

\* lines 239-246 and the locals the prophet / arima branch leaves:
\* c the clamped <<pred, liminf, limsup>>, d the decision, r the rounded
\* <<real, pred, pred_table>>
NumericRounded(m, c, d, r) ==
    [pred |-> r[2], liminf |-> c[2], limsup |-> c[3], details |-> d.details,
     is_alert |-> d.is_alert, pred_table |-> r[3],
     bound |-> bound \cup DecisionLocals \cup {"pred_table"},
     real |-> r[1], error |-> "", fit |-> Append(fit_calls, m)]

\* lines 222-246
NumericDecided(m, pt, c, d) ==
    NumericRounded(m, c, d, RoundValues(IsIntMetric(m), d.real, c[1], pt))

\* lines 222-237 on the clamped values c
NumericClamped(m, real0, pt, c) ==
    NumericDecided(m, pt, c, Decide(real0, c[2], c[3], limsup_alert))

\* lines 215-220 on the hooks' result h
NumericHooked(m, real0, pt, h) ==
    NumericClamped(m, real0, pt, Clamp(h[1], h[2], h[3]))

\* lines 198-213: the row of the evaluation date, then the isRelated hooks;
\* .values[0] raises IndexError when the table has no such row
NumericFromRow(m, real0, pt, hit) ==
    IF hit = <<>>
    THEN [Cur EXCEPT !.error = "IndexError", !.pred_table = pt,
                     !.bound = @ \cup {"pred_table"}, !.fit = Append(@, m)]
    ELSE NumericHooked(m, real0, pt,
                       IF ParamRow(m).isRelated = "True"
                       THEN ApplyExtraStyles(alerts_table, m, hit[1].yhat,
                                             hit[1].yhat_lower, hit[1].yhat_upper)
                       ELSE <<hit[1].yhat, hit[1].yhat_lower, hit[1].yhat_upper>>)

\* lines 198-202: the rows of pred_table whose ds is the evaluation date
NumericLookup(m, real0, pt) ==
    NumericFromRow(m, real0, pt, SelectSeq(pt, LAMBDA r : r.ds = date))

\* lines 184-246: the prophet / arima branch; an exception of the forecasting
\* library (model.fit, model.predict) leaves get_prediction_* and the loop
NumericMethod(m, method, real0) ==
    IF m \in backend_fails
    THEN [Cur EXCEPT !.error = "BackendError", !.fit = Append(@, m)]
    ELSE NumericLookup(m, real0, IF method = "prophet" THEN get_prediction_PROPHET(m)
                                 ELSE get_prediction_ARIMA(m))

\* lines 248-263: the constraint branch
ConstraintMethod(real0) ==
    LET d == ConstraintDecide(real0)
    IN  [Cur EXCEPT !.pred = PyStr(No), !.liminf = PyStr(Dash), !.limsup = PyStr(Dash),
                    !.details = d.details, !.is_alert = d.is_alert, !.real = d.real,
                    !.bound = @ \cup DecisionLocals]

\* lines 181-263: the method dispatch; a method that is none of the three
\* runs no branch and leaves every local as the previous iteration left it
MethodDispatch(m) ==
    IF ParamRow(m).method = "prophet" \/ ParamRow(m).method = "arima"
    THEN NumericMethod(m, ParamRow(m).method, real_value_table[m])
    ELSE IF ParamRow(m).method = "constraint" THEN ConstraintMethod(real_value_table[m])
    ELSE [Cur EXCEPT !.real = real_value_table[m]]

ApplyOverride_ClearsDetails(F, m) ==
    LET ia == SendAlertOverride(ParamRow(m).sendAlert, F.real, F.is_alert)
    IN  IF ia = F.is_alert THEN F
        ELSE [F EXCEPT !.is_alert = ia, !.details = "", !.bound = @ \cup {"is_alert"}]

\* lines 265-267 applied to the locals
ApplyOverride(F, m) ==
    LET ia == SendAlertOverride(ParamRow(m).sendAlert, F.real, F.is_alert)
    IN  IF ia = F.is_alert THEN F
        ELSE [F EXCEPT !.is_alert = ia, !.bound = @ \cup {"is_alert"}]

\* lines 274-280: the alert info row
single_alert_info(F, m) ==
    [Metric |-> replace_underscore(m), Alert |-> F.is_alert, Prediction |-> F.pred,
     Real |-> F.real, LimInf |-> F.liminf, LimSup |-> F.limsup, Details |-> F.details]

Raise(exc) ==
    /\ pc' = "raised"
    /\ error' = exc
    /\ idx' = idx

\* lines 265-293 with the locals F the method dispatch and the override left
FinishIteration(m, F) ==
    /\ pred' = F.pred
    /\ liminf' = F.liminf
    /\ limsup' = F.limsup
    /\ details' = F.details
    /\ is_alert' = F.is_alert
    /\ pred_table' = F.pred_table
    /\ bound' = F.bound
    /\ fit_calls' = F.fit
    /\ IF F.error # ""
       THEN /\ Raise(F.error)
            /\ UNCHANGED <<alerts_table, future_table>>
       ELSE IF ~(DecisionLocals \subseteq F.bound)
       THEN /\ Raise("UnboundLocalError")
            /\ UNCHANGED <<alerts_table, future_table>>
       ELSE /\ alerts_table' = Append(alerts_table, single_alert_info(F, m))
            /\ IF "pred_table" \notin F.bound
               THEN /\ Raise("UnboundLocalError")
                    /\ UNCHANGED future_table
               ELSE /\ future_table' =
                          [future_table EXCEPT !.rows =
                               @ \o ConcatTable(F.pred_table, replace_underscore(m))]
                    /\ idx' = idx + 1
                    /\ UNCHANGED <<pc, error>>

\* one iteration of the for loop (lines 175-293)
LoopBody ==
    /\ pc = "loop"
    /\ idx < Len(metrics)
    /\ UNCHANGED <<inputs, script, collab>>
    /\ IF are_complete_null(metrics[idx + 1])
       THEN /\ Raise("AssertionError")
            /\ UNCHANGED <<alerts_table, future_table, pred, liminf, limsup, details,
                           is_alert, pred_table, bound, fit_calls>>
       ELSE FinishIteration(metrics[idx + 1],
                            ApplyOverride(MethodDispatch(metrics[idx + 1]), metrics[idx + 1]))

\* lines 297-301 on one record
FormatRecord(rec) ==
    LET real_text == remove_decimals(str(rec.Real))
    IN  [rec EXCEPT !.Prediction = PyStr(remove_decimals(str(rec.Prediction))),
                    !.Real = PyStr(IF real_text = MinusOne THEN NoData ELSE real_text)]

\* lines 295-306: the formatting after the loop and the return
Return ==
    /\ pc = "loop"
    /\ idx = Len(metrics)
    /\ alerts_table' = [i \in 1..Len(alerts_table) |-> FormatRecord(alerts_table[i])]
    /\ future_table' = IF future_pred THEN future_table ELSE [none |-> TRUE, rows |-> <<>>]
    /\ pc' = "returned"
    /\ UNCHANGED <<inputs, script, collab, error, idx, pred, liminf, limsup, details, is_alert,
                   pred_table, bound, fit_calls>>

Next == LoopBody \/ Return

Spec == Init /\ [][Next]_vars

\* runs in which the forecasting library raises for some of the metrics
InitBackend ==
    /\ NoScript
    /\ NoCall
    /\ NoTransfer
    /\ \E n \in 1..MaxMetrics : \E cfgs \in [1..n -> SmallCfg] :
           /\ InitWith(cfgs, Date(2024, 2, 28), TRUE, TRUE)
           /\ backend_fails \in (SUBSET {MetricName(i) : i \in 1..n}) \ {{}}

SpecBackend == InitBackend /\ [][Next]_vars

\* runs of four metrics, a forecast metric before each of two other metrics:
\* the forecasts 1 and 0, the actual values 0, 1.5 and 2
ForecastCfg ==
    [method : {"prophet"}, sendAlert : {"True"}, isRelated : {"False"},
     column : {ValueColumn("float", FALSE)}, real : {PyFloat(One)},
     yhat : {0, One}, lo : {0}, hi : {2 * One}, tail : {-One + (One \div 2)}]

FollowerCfg ==
    [method : {"prophet", "constraint", OtherMethod}, sendAlert : {"True", "False"},
     isRelated : {"False"}, column : {ValueColumn("float", FALSE)},
     real : {PyFloat(0), PyFloat(One + (One \div 2)), PyFloat(2 * One)},
     yhat : {One}, lo : {0}, hi : {2 * One}, tail : {-One + (One \div 2)}]

InitCross ==
    /\ NoScript
    /\ NoCall
    /\ NoTransfer
    /\ backend_fails = {}
    /\ \E p1 \in ForecastCfg, x1 \in FollowerCfg, p2 \in ForecastCfg, x2 \in FollowerCfg :
           InitWith(<<p1, x1, p2, x2>>, Date(2024, 2, 28), TRUE, TRUE)

SpecCross == InitCross /\ [][Next]_vars

\* ========================================================== properties
\* the record of the i-th metric column and the inputs it was made from
Rec(i) == alerts_table[i]

Actual(i) == real_value_table[metrics[i]]

MethodOf(i) == ParamRow(metrics[i]).method

SendAlertOf(i) == ParamRow(metrics[i]).sendAlert

IsNumericMethod(i) == MethodOf(i) \in {"prophet", "arima"}

Returned == pc = "returned"

\* the four alert states, read off a record: code 1 with the missing-data
\* detail is MissingData, otherwise the code alone decides
StateOf(rec) ==
    IF rec.Alert.v = One /\ rec.Details = MissingDetails THEN "MissingData"
    ELSE IF rec.Alert.v = One THEN "Alert"
    ELSE IF rec.Alert.v = 0 THEN "NoAlert"
    ELSE IF rec.Alert.v = 2 * One THEN "Disabled"
    ELSE "Other"

\* C1: a metric of a known method whose actual value is undefined gets the
\* state MissingData with the missing-data detail, and its Real text in the
\* returned table is "No data", whatever sendAlert and isRelated are.
C1_MissingData ==
    Returned =>
        \A i \in 1..Len(metrics) :
            (MethodOf(i) \in Methods /\ isna(Actual(i))) =>
                /\ StateOf(Rec(i)) = "MissingData"
                /\ Rec(i).Details = MissingDetails
                /\ Rec(i).Real = PyStr(NoData)

C1_Witness ==
    /\ Returned
    /\ \E i \in 1..Len(metrics) :
           /\ MethodOf(i) = "arima"
           /\ isna(Actual(i))
           /\ SendAlertOf(i) = "False"
           /\ ParamRow(metrics[i]).isRelated = "True"
           /\ Rec(i).Real = PyStr(NoData)

\* C2: a prophet or arima metric with sendAlert false and a defined actual
\* value is recorded as Disabled, whatever the actual value and forecast.
C2_DisabledWhenSendAlertFalse ==
    Returned =>
        \A i \in 1..Len(metrics) :
            (IsNumericMethod(i) /\ SendAlertOf(i) = "False" /\ ~isna(Actual(i))) =>
                StateOf(Rec(i)) = "Disabled"

\* the bounds the clamps of lines 215-220 must leave, written from the
\* forecast the backend delivered for the evaluation date
ExpectedLimInf(i) ==
    LET b == backend[metrics[i]]
    IN  IF b.lo < 0 \/ b.yhat <= 0 THEN 0 ELSE b.lo

ExpectedLimSup(i) ==
    LET b == backend[metrics[i]]
    IN  IF b.hi < 0 THEN 0 ELSE b.hi

\* C3: for a prophet or arima metric with a defined actual value and
\* sendAlert true the record is Alert / Decreasing tendency when the actual
\* value is below the clamped lower bound, else Alert / Increasing tendency
\* when it is above the clamped upper bound and limsup_alert is on, else
\* NoAlert / No alert.
C3_NumericDecision ==
    Returned =>
        \A i \in 1..Len(metrics) :
            (IsNumericMethod(i) /\ SendAlertOf(i) = "True" /\ ~isna(Actual(i))) =>
                /\ Rec(i).LimInf.v = ExpectedLimInf(i)
                /\ Rec(i).LimSup.v = ExpectedLimSup(i)
                /\ IF Actual(i).v < ExpectedLimInf(i)
                   THEN StateOf(Rec(i)) = "Alert" /\ Rec(i).Details = DecreasingDetails
                   ELSE IF Actual(i).v > ExpectedLimSup(i) /\ limsup_alert
                   THEN StateOf(Rec(i)) = "Alert" /\ Rec(i).Details = IncreasingDetails
                   ELSE StateOf(Rec(i)) = "NoAlert" /\ Rec(i).Details = NoAlertDetails

C3_Witness ==
    /\ Returned
    /\ ~limsup_alert
    /\ \E i \in 1..Len(metrics) :
           /\ IsNumericMethod(i)
           /\ SendAlertOf(i) = "True"
           /\ ~isna(Actual(i))
           /\ Actual(i).v > Rec(i).LimSup.v
           /\ Actual(i).v >= Rec(i).LimInf.v
           /\ StateOf(Rec(i)) = "NoAlert"

\* C4: with sendAlert true, an actual value equal to the clamped lower bound
\* or equal to the clamped upper bound of a prophet or arima metric is
\* NoAlert, for either value of limsup_alert.
C4_BoundaryIsNoAlert ==
    Returned =>
        \A i \in 1..Len(metrics) :
            (/\ IsNumericMethod(i)
             /\ SendAlertOf(i) = "True"
             /\ ~isna(Actual(i))
             /\ (Actual(i).v = Rec(i).LimInf.v \/ Actual(i).v = Rec(i).LimSup.v)) =>
                StateOf(Rec(i)) = "NoAlert"

C4_Witness ==
    /\ Returned
    /\ limsup_alert
    /\ \E i \in 1..Len(metrics) :
           /\ IsNumericMethod(i)
           /\ SendAlertOf(i) = "True"
           /\ Actual(i) = PyFloat(One)
           /\ Rec(i).LimInf.v = One
           /\ Rec(i).LimSup.v = One
           /\ StateOf(Rec(i)) = "NoAlert"

\* a record's prediction, before (number) or after (text) the formatting
PredNonNegative(rec) ==
    IF rec.Prediction.ty = "str" THEN Head(rec.Prediction.s) # "-"
    ELSE rec.Prediction.v >= 0

PredIsZero(rec) ==
    IF rec.Prediction.ty = "str" THEN rec.Prediction.s = <<"0">>
    ELSE rec.Prediction.v = 0

\* C5 as stated: the prediction and bounds stored in the record of a
\* prophet or arima metric are >= 0, and the stored lower bound is 0
\* whenever the stored prediction is 0.
C5_StoredValuesClamped ==
    \A i \in 1..Len(alerts_table) :
        IsNumericMethod(i) =>
            /\ PredNonNegative(Rec(i))
            /\ Rec(i).LimInf.v >= 0
            /\ Rec(i).LimSup.v >= 0
            /\ (PredIsZero(Rec(i)) => Rec(i).LimInf.v = 0)

\* C5 amended: the stored prediction and bounds are >= 0, and the stored
\* lower bound is 0 whenever the clamped prediction, before it is rounded
\* for the record, is 0 (the backend's prediction is <= 0); the stored
\* prediction is then 0 too.
C5_ClampedBeforeRounding ==
    \A i \in 1..Len(alerts_table) :
        IsNumericMethod(i) =>
            /\ PredNonNegative(Rec(i))
            /\ Rec(i).LimInf.v >= 0
            /\ Rec(i).LimSup.v >= 0
            /\ (backend[metrics[i]].yhat <= 0 => (PredIsZero(Rec(i)) /\ Rec(i).LimInf.v = 0))

C5_Witness ==
    /\ Returned
    /\ \E i \in 1..Len(metrics) :
           /\ IsNumericMethod(i)
           /\ ParamRow(metrics[i]).isRelated = "True"
           /\ backend[metrics[i]].yhat = 0
           /\ backend[metrics[i]].lo > 0
           /\ Rec(i).LimInf.v = 0
           /\ PredIsZero(Rec(i))

Range(q) == {q[i] : i \in 1..Len(q)}

\* C6: a constraint metric with sendAlert true and a defined actual value is
\* Alert / Constraint violated when the actual value is 1 and NoAlert when
\* it is 0; its prediction and bounds are the sentinels "No", "-", "-" and
\* no forecasting backend is fitted for it.
C6_ConstraintDecision ==
    \A i \in 1..Len(alerts_table) :
        (MethodOf(i) = "constraint" /\ SendAlertOf(i) = "True" /\ ~isna(Actual(i))) =>
            /\ Actual(i).v = One =>
                   (StateOf(Rec(i)) = "Alert" /\ Rec(i).Details = ConstraintDetails)
            /\ Actual(i).v = 0 =>
                   (StateOf(Rec(i)) = "NoAlert" /\ Rec(i).Details = NoAlertDetails)
            /\ Rec(i).Prediction = PyStr(No)
            /\ Rec(i).LimInf = PyStr(Dash)
            /\ Rec(i).LimSup = PyStr(Dash)
            /\ metrics[i] \notin Range(fit_calls)

C6_Witness ==
    /\ Returned
    /\ \E i \in 1..Len(metrics) :
           /\ MethodOf(i) = "constraint"
           /\ SendAlertOf(i) = "True"
           /\ Actual(i).v = One
           /\ ~isna(Actual(i))
           /\ StateOf(Rec(i)) = "Alert"
           /\ Rec(i).Real = PyStr(Yes)

\* the history column of the i-th metric holds no value at all
EntirelyNull(i) == \A k \in 1..Len(data.date) : data.cols[metrics[i]][k] = NaN

\* C7: when every metric has a known method and a history that is not
\* entirely null, the call does not fail and returns exactly one record per
\* metric column, in the order of the columns.
C7_OneRecordPerMetric ==
    (\A i \in 1..Len(metrics) :
         MethodOf(i) \in Methods /\ ~EntirelyNull(i)) =>
        /\ pc # "raised"
        /\ Returned =>
               /\ Len(alerts_table) = Len(metrics)
               /\ \A i \in 1..Len(metrics) : Rec(i).Metric = replace_underscore(metrics[i])

\* C8: no row of the returned Forecast Table carries the name of a
\* constraint metric.
C8_NoConstraintForecastRows ==
    Returned =>
        \A r \in 1..Len(future_table.rows) : \A i \in 1..Len(metrics) :
            MethodOf(i) = "constraint" =>
                future_table.rows[r].Metric # replace_underscore(metrics[i])

\* C9: when the method of a metric, at any position, is none of prophet,
\* arima and constraint, the call returns no table and makes no record for
\* that metric.
C9_UnknownMethodAborts ==
    \A i \in 1..Len(metrics) :
        MethodOf(i) \notin Methods => (~Returned /\ Len(alerts_table) < i)

\* C10: when a metric column is entirely null the call never returns: the
\* loop does not get past that metric and makes no record for it, however
\* many earlier metrics were processed.
C10_AllNullColumnFails ==
    \A i \in 1..Len(metrics) :
        EntirelyNull(i) => (~Returned /\ idx < i /\ Len(alerts_table) < i)

C10_Witness ==
    /\ pc = "raised"
    /\ error = "AssertionError"
    /\ idx >= 1
    /\ Len(alerts_table) = idx
    /\ EntirelyNull(idx + 1)

\* ============================================================ Preprocess
\* rolling(window = 7, min_periods = 1)
Window == 7

MinPeriods == 1

\* the limits are mean -/+ 3*std
SigmaFactor == 3

\* the rows of a column that hold a value, among rows lo..hi
NonNullRows(col, lo, hi) == {k \in lo..hi : k >= 1 /\ k <= Len(col) /\ ~isna(col[k])}

RECURSIVE SumOf(_, _)
SumOf(col, rows) ==
    IF rows = {} THEN 0
    ELSE LET k == CHOOSE r \in rows : TRUE
         IN  col[k].v + SumOf(col, rows \ {k})

RECURSIVE SumOfSquares(_, _)
SumOfSquares(col, rows) ==
    IF rows = {} THEN 0
    ELSE LET k == CHOOSE r \in rows : TRUE
         IN  col[k].v * col[k].v + SumOfSquares(col, rows \ {k})

\* the mean of the values in the given rows, to the nearest 1/Scale
MeanOf(col, rows) == PyFloat(RoundTo(SumOf(col, rows), Cardinality(rows)) \div Cardinality(rows))

rolling_mean_Expanding(col, i) ==
    IF Cardinality(NonNullRows(col, 1, i)) < MinPeriods THEN NaN
    ELSE MeanOf(col, NonNullRows(col, 1, i))

\* data[m].rolling(window = 7, min_periods = 1).mean() at row i
rolling_mean(col, i) ==
    IF Cardinality(NonNullRows(col, i - Window + 1, i)) < MinPeriods THEN NaN
    ELSE MeanOf(col, NonNullRows(col, i - Window + 1, i))

fillna0_Keep(x) == x

\* .fillna(0)
fillna0(x) == IF isna(x) THEN PyFloat(0) ELSE x

\* data[m].dtypes == 'Int64': the nullable integer columns, whose values are ints
IsInt64(col) == \E k \in 1..Len(col) : col[k].ty = "int"

\* lines 29-33: the moving_avg column of a metric column
moving_avg(col, i) ==
    IF IsInt64(col) THEN int_round(fillna0(rolling_mean(col, i)))
    ELSE fillna0(rolling_mean(col, i))

\* line 38: np.where(data[m].isna(), data['moving_avg'], data[m])
fill_column(col) == [i \in 1..Len(col) |-> IF isna(col[i]) THEN moving_avg(col, i) ELSE col[i]]

\* Preprocess.fill_moving_avg on a frame [date, cols]
fill_moving_avg(frame) ==
    [frame EXCEPT !.cols = [m \in DOMAIN frame.cols |-> fill_column(frame.cols[m])]]

\* x < mean - 3*std and x > mean + 3*std, for the column's count n, sum S and
\* sum of squares Q of its values (mean = S/n, std = sqrt(n*Q - S*S)/n), both
\* sides multiplied by n and squared; no value compares with the NaN limits
\* of a column without values
below_lower_limit(x, n, S, Q) ==
    /\ n > 0
    /\ n * x < S
    /\ (S - n * x) * (S - n * x) > SigmaFactor * SigmaFactor * (n * Q - S * S)

above_upper_limit_TwoSigma(x, n, S, Q) ==
    /\ n > 0
    /\ n * x > S
    /\ (n * x - S) * (n * x - S) > 2 * 2 * (n * Q - S * S)

above_upper_limit(x, n, S, Q) ==
    /\ n > 0
    /\ n * x > S
    /\ (n * x - S) * (n * x - S) > SigmaFactor * SigmaFactor * (n * Q - S * S)

condition_UpperOnly(col, i) ==
    /\ ~isna(col[i])
    /\ above_upper_limit(col[i].v, Cardinality(NonNullRows(col, 1, Len(col))),
                         SumOf(col, NonNullRows(col, 1, Len(col))),
                         SumOfSquares(col, NonNullRows(col, 1, Len(col))))

\* line 65 on one value of a column
condition(col, i) ==
    /\ ~isna(col[i])
    /\ \/ below_lower_limit(col[i].v, Cardinality(NonNullRows(col, 1, Len(col))),
                            SumOf(col, NonNullRows(col, 1, Len(col))),
                            SumOfSquares(col, NonNullRows(col, 1, Len(col))))
       \/ above_upper_limit(col[i].v, Cardinality(NonNullRows(col, 1, Len(col))),
                            SumOf(col, NonNullRows(col, 1, Len(col))),
                            SumOfSquares(col, NonNullRows(col, 1, Len(col))))

\* line 69: data.loc[condition, m] = None
outliers_column(col) == [i \in 1..Len(col) |-> IF condition(col, i) THEN NaN ELSE col[i]]

\* Preprocess.remove_outliers on a frame [date, cols]
remove_outliers(frame) ==
    [frame EXCEPT !.cols = [m \in DOMAIN frame.cols |-> outliers_column(frame.cols[m])]]

\* ============================================ alerts_detection_system.py
\* lines 189-193 write rows 0..4 of the alerts table
ForcedRows == 5

MaxScriptMetrics == 5

\* one metric of a run of the script: NoAlert, Disabled, all-missing history
\* with an actual value above the interval, missing actual value
ScriptCfg ==
    [method : {"prophet"}, sendAlert : {"True", "False"}, isRelated : {"False"},
     column : {ValueColumn("float", FALSE)}, real : {PyFloat(One)},
     yhat : {One}, lo : {0}, hi : {2 * One}, tail : {-One + (One \div 2)}]
    \cup
    [method : {"arima"}, sendAlert : {"True"}, isRelated : {"False"},
     column : {NullColumn}, real : {PyFloat(3 * One)},
     yhat : {One}, lo : {0}, hi : {2 * One}, tail : {-One + (One \div 2)}]
    \cup
    [method : {"prophet"}, sendAlert : {"True"}, isRelated : {"False"},
     column : {ValueColumn("float", TRUE)}, real : {NaN},
     yhat : {One}, lo : {0}, hi : {2 * One}, tail : {-One + (One \div 2)}]

\* the locals of get_alerts_table
locals == <<error, idx, alerts_table, future_table, pred, liminf, limsup, details, is_alert,
            pred_table, bound, fit_calls>>

\* state after the download loop and the sort by date (line 163): one row per
\* day of the window, the evaluation date last
InitScriptWith(cfgs, dt, fp, la, fa) ==
    LET n == Len(cfgs)
        names == [i \in 1..n |-> MetricName(i)]
        at(m) == cfgs[CHOOSE i \in 1..n : names[i] = m]
        nameset == {names[i] : i \in 1..n}
    IN  /\ metrics = names
        /\ date = dt
        /\ downloaded = [date |-> Append(HistoryDates(dt), dt),
                         cols |-> [m \in nameset |-> Append(at(m).column, at(m).real)]]
        /\ data = downloaded
        /\ real_value_table = <<>>
        /\ model_params = [i \in 1..n |-> [kpi |-> names[i], method |-> cfgs[i].method,
                                           isRelated |-> cfgs[i].isRelated,
                                           sendAlert |-> cfgs[i].sendAlert]]
        /\ backend = [m \in nameset |-> [yhat |-> at(m).yhat, lo |-> at(m).lo,
                                         hi |-> at(m).hi, tail |-> at(m).tail]]
        /\ future_pred = fp
        /\ limsup_alert = la
        /\ force_alert = fa
        /\ only_alerts_table = <<>>
        /\ pc = "split"
        /\ error = ""
        /\ idx = 0
        /\ alerts_table = <<>>
        /\ future_table = [none |-> FALSE, rows |-> <<>>]
        /\ pred = Unbound /\ liminf = Unbound /\ limsup = Unbound
        /\ details = "" /\ is_alert = Unbound /\ pred_table = <<>>
        /\ bound = {}
        /\ fit_calls = <<>>

InitScript ==
    /\ NoCall
    /\ NoTransfer
    /\ backend_fails = {}
    /\ \E n \in 1..MaxScriptMetrics : \E cfgs \in [1..n -> ScriptCfg], fa \in BOOLEAN :
           InitScriptWith(cfgs, Date(2024, 2, 28), TRUE, TRUE, fa)

AllButLast_Whole(col) == col

\* data.iloc[:-1] and data.iloc[-1:] of a column
AllButLast(col) == SubSeq(col, 1, Len(col) - 1)

LastOf(col) == col[Len(col)]

\* lines 166-168: the actual values of the evaluation date leave the frame
SplitActual ==
    /\ pc = "split"
    /\ real_value_table' = [m \in DOMAIN data.cols |-> LastOf(data.cols[m])]
    /\ data' = [date |-> AllButLast(data.date),
                cols |-> [m \in DOMAIN data.cols |-> AllButLast(data.cols[m])]]
    /\ pc' = "outliers"
    /\ UNCHANGED <<metrics, date, model_params, future_pred, limsup_alert, backend, locals,
                   script, collab>>

\* line 173
RemoveOutliers ==
    /\ pc = "outliers"
    /\ data' = remove_outliers(data)
    /\ pc' = "fill"
    /\ UNCHANGED <<metrics, date, real_value_table, model_params, future_pred, limsup_alert,
                   backend, locals, script, collab>>

\* lines 174-184: the imputation, then the detector is built on the frame and
\* get_alerts_table entered
FillMovingAvg ==
    /\ pc = "fill"
    /\ data' = fill_moving_avg(data)
    /\ pc' = "loop"
    /\ UNCHANGED <<metrics, date, real_value_table, model_params, future_pred, limsup_alert,
                   backend, locals, script, collab>>

\* lines 188-193: alerts_table.iloc[k, 1] = 1 for k = 0..4
forced(table) ==
    [i \in 1..Len(table) |-> IF i <= ForcedRows THEN [table[i] EXCEPT !.Alert = PyInt(One)]
                             ELSE table[i]]

\* line 194: alerts_table.loc[alerts_table['Alert'] == 1, [...]]
is_alert_row_NonZero(rec) == ~PyEq(rec.Alert, PyInt(0))

is_alert_row(rec) == PyEq(rec.Alert, PyInt(One))

alert_columns(rec) ==
    [Metric |-> rec.Metric, Prediction |-> rec.Prediction, Real |-> rec.Real,
     Details |-> rec.Details]

only_alerts(table) ==
    [i \in 1..Len(SelectSeq(table, is_alert_row)) |->
         alert_columns(SelectSeq(table, is_alert_row)[i])]

\* lines 186-194: the forced alerts and the table of alerts that the
\* historical upload and the email get; iloc raises on a row the table lacks
SurfaceAlerts ==
    /\ pc = "returned"
    /\ IF force_alert /\ Len(alerts_table) < ForcedRows
       THEN /\ alerts_table' = forced(alerts_table)
            /\ pc' = "raised"
            /\ error' = "IndexError"
            /\ UNCHANGED only_alerts_table
       ELSE /\ alerts_table' = IF force_alert THEN forced(alerts_table) ELSE alerts_table
            /\ only_alerts_table' = only_alerts(alerts_table')
            /\ pc' = "surfaced"
            /\ UNCHANGED error
    /\ UNCHANGED <<inputs, idx, future_table, pred, liminf, limsup, details, is_alert,
                   pred_table, bound, fit_calls, downloaded, force_alert, arg, ret, collab>>

NextScript == SplitActual \/ RemoveOutliers \/ FillMovingAvg \/ LoopBody \/ Return \/ SurfaceAlerts

SpecScript == InitScript /\ [][NextScript]_vars

\* ------------------------------------------ the download loop, lines 94-163
MaxSources == 2

MaxRawRows == 2

\* line 94: the days of the window, the evaluation date first
WindowDates(dt) == [x \in 1..(HistLen + 1) |-> SubDays(dt, x - 1)]

\* what a source returns for a metric: rows of a date and a value, the date
\* inside the window or the day before its first day
RawRow(dt) ==
    [date : {dt, SubDays(dt, 1), SubDays(dt, HistLen + 1)}, value : {PyFloat(One)}]

RawTables(dt) == UNION {[1..n -> RawRow(dt)] : n \in 0..MaxRawRows}

HasDuplicatedDates_Never(raw) == FALSE

\* raw_metric['date'].duplicated().any()
HasDuplicatedDates(raw) == \E i, j \in 1..Len(raw) : i < j /\ raw[i].date = raw[j].date

\* a GA report has one row per value of its only dimension, the date; what a
\* BQ query returns is up to the configured SQL
SourceCfg(dt) ==
    {c \in [source : {"GA"}, raw : RawTables(dt)] :
         \A i, j \in 1..Len(c.raw) : i < j => c.raw[i].date # c.raw[j].date}
    \cup [source : {"BQ"}, raw : RawTables(dt)]

\* data.merge(raw_metric, on = 'date', how = 'left'), from row i of data on: a
\* row of data yields one row per row of raw with its date, or one row with a
\* missing value
RECURSIVE MergeRows(_, _, _)
MergeRows(dates, raw, i) ==
    IF i > Len(dates) THEN <<>>
    ELSE (IF SelectSeq(raw, LAMBDA r : r.date = dates[i]) = <<>>
          THEN <<[row |-> i, value |-> NaN]>>
          ELSE [k \in 1..Len(SelectSeq(raw, LAMBDA r : r.date = dates[i])) |->
                    [row |-> i, value |-> SelectSeq(raw, LAMBDA r : r.date = dates[i])[k].value]])
         \o MergeRows(dates, raw, i + 1)

\* the frame of the merged rows, the new column under the given name
Merged(frame, rows, name) ==
    [date |-> [k \in 1..Len(rows) |-> frame.date[rows[k].row]],
     cols |-> [m \in DOMAIN frame.cols \cup {name} |->
                  [k \in 1..Len(rows) |-> IF m = name THEN rows[k].value
                                          ELSE frame.cols[m][rows[k].row]]]]

merge(frame, raw, name) == Merged(frame, MergeRows(frame.date, raw, 1), name)

\* the rows of a frame in ascending order of date
RECURSIVE SortedRows(_, _)
SortedRows(dates, rows) ==
    IF rows = {} THEN <<>>
    ELSE LET k == CHOOSE r \in rows :
                      \A j \in rows : \/ DateKey(dates[r]) < DateKey(dates[j])
                                      \/ DateKey(dates[r]) = DateKey(dates[j]) /\ r <= j
         IN  <<k>> \o SortedRows(dates, rows \ {k})

\* data.sort_values(by = 'date', ascending = True)
Reordered(frame, order) ==
    [date |-> [k \in 1..Len(order) |-> frame.date[order[k]]],
     cols |-> [m \in DOMAIN frame.cols |-> [k \in 1..Len(order) |-> frame.cols[m][order[k]]]]]

sort_values(frame) == Reordered(frame, SortedRows(frame.date, 1..Len(frame.date)))

\* state at line 101: the frame of the dates, no model parameters
InitDownloadWith(infos, dt) ==
    /\ metrics_info = infos
    /\ date = dt
    /\ data = [date |-> WindowDates(dt), cols |-> <<>>]
    /\ model_params = <<>>
    /\ metrics = <<>>
    /\ downloaded = <<>>
    /\ real_value_table = <<>>
    /\ backend = <<>>
    /\ backend_fails = {}
    /\ warehouse = <<>>
    /\ future_pred = TRUE
    /\ limsup_alert = TRUE
    /\ force_alert = FALSE
    /\ only_alerts_table = <<>>
    /\ pc = "download"
    /\ error = ""
    /\ idx = 0
    /\ alerts_table = <<>>
    /\ future_table = [none |-> FALSE, rows |-> <<>>]
    /\ pred = Unbound /\ liminf = Unbound /\ limsup = Unbound
    /\ details = "" /\ is_alert = Unbound /\ pred_table = <<>>
    /\ bound = {}
    /\ fit_calls = <<>>

InitDownload ==
    /\ NoCall
    /\ \E n \in 1..MaxSources : \E infos \in [1..n -> SourceCfg(Date(2024, 2, 28))] :
           InitDownloadWith(infos, Date(2024, 2, 28))

\* lines 102-159, one iteration: the metric is merged into the frame, a BQ
\* metric with duplicated dates is not; its model parameters are appended
DownloadMetric ==
    /\ pc = "download"
    /\ Len(model_params) < Len(metrics_info)
    /\ IF /\ metrics_info[Len(model_params) + 1].source = "BQ"
          /\ HasDuplicatedDates(metrics_info[Len(model_params) + 1].raw)
       THEN UNCHANGED <<data, metrics>>
       ELSE /\ data' = merge(data, metrics_info[Len(model_params) + 1].raw,
                             MetricName(Len(model_params) + 1))
            /\ metrics' = Append(metrics, MetricName(Len(model_params) + 1))
    /\ model_params' = Append(model_params,
                              [kpi |-> MetricName(Len(model_params) + 1), method |-> "prophet",
                               isRelated |-> "False", sendAlert |-> "True"])
    /\ UNCHANGED <<date, real_value_table, future_pred, limsup_alert, backend, pc, locals,
                   script, collab>>

\* line 163: the frame is sorted by date and handed to the core
SortByDate ==
    /\ pc = "download"
    /\ Len(model_params) = Len(metrics_info)
    /\ data' = sort_values(data)
    /\ downloaded' = sort_values(data)
    /\ pc' = "split"
    /\ UNCHANGED <<metrics, date, real_value_table, model_params, future_pred, limsup_alert,
                   backend, locals, force_alert, only_alerts_table, arg, ret, collab>>

NextDownload == DownloadMetric \/ SortByDate

SpecDownload == InitDownload /\ [][NextDownload]_vars

\* ============================================= properties of the script
\* the metric's column holds no value on any day of the modeling window
\* (the downloaded frame without its last row)
MissingEveryDay(m) ==
    \A k \in 1..(Len(downloaded.cols[m]) - 1) : isna(downloaded.cols[m][k])

AfterImputation == pc \in {"loop", "returned", "surfaced", "raised"}

ColumnUndefined(m) == \A k \in 1..Len(data.cols[m]) : isna(data.cols[m][k])

\* C11: a metric missing on every day of the modeling window still has an
\* entirely undefined column after remove_outliers and fill_moving_avg, and the
\* run does not get past get_alerts_table.
C11_AllMissingStaysUndefined ==
    \A m \in DOMAIN downloaded.cols :
        MissingEveryDay(m) =>
            /\ AfterImputation => ColumnUndefined(m)
            /\ pc \notin {"returned", "surfaced"}

\* the step that hands the table of alerts on
Surfacing == pc = "returned" /\ pc' = "surfaced"

\* the record of get_alerts_table's table is a row of the next table of alerts
SurfacedNext(rec) ==
    \E k \in 1..Len(only_alerts_table') : only_alerts_table'[k].Metric = rec.Metric

\* what the step surfaces: the records that get_alerts_table returned in state
\* Alert or MissingData, and no others
SurfacesOnlyAlerts ==
    /\ \A i \in 1..Len(alerts_table) :
           SurfacedNext(alerts_table[i])
               <=> StateOf(alerts_table[i]) \in {"Alert", "MissingData"}
    /\ \A k \in 1..Len(only_alerts_table') :
           \E i \in 1..Len(alerts_table) : alerts_table[i].Metric = only_alerts_table'[k].Metric

NoRun ==
    /\ data = [date |-> <<>>, cols |-> <<>>]
    /\ metrics = <<>>
    /\ date = Date(2024, 2, 28)
    /\ real_value_table = <<>>
    /\ model_params = <<>>
    /\ backend = <<>>
    /\ future_pred = FALSE
    /\ limsup_alert = FALSE
    /\ error = ""
    /\ idx = 0
    /\ alerts_table = <<>>
    /\ future_table = [none |-> FALSE, rows |-> <<>>]
    /\ pred = Unbound /\ liminf = Unbound /\ limsup = Unbound
    /\ details = "" /\ is_alert = Unbound /\ pred_table = <<>>
    /\ bound = {}
    /\ fit_calls = <<>>

\* a call of a helper on the argument drawn at the start
InitCall(args) ==
    /\ NoRun
    /\ NoScript
    /\ NoTransfer
    /\ backend_fails = {}
    /\ pc = "call"
    /\ arg \in args
    /\ ret = <<>>

Call(result) ==
    /\ pc = "call"
    /\ ret' = result
    /\ pc' = "done"
    /\ UNCHANGED <<inputs, locals, downloaded, force_alert, only_alerts_table, arg, collab>>

\* a frame of one metric column, one row per day
Frame1(col) ==
    [date |-> [i \in 1..Len(col) |-> AddDays(Date(2024, 1, 1), i - 1)],
     cols |-> (MetricName(1) :> col)]

\* a frame of two metric columns of the same length
Frame2(col1, col2) ==
    [date |-> [i \in 1..Len(col1) |-> AddDays(Date(2024, 1, 1), i - 1)],
     cols |-> (MetricName(1) :> col1 @@ MetricName(2) :> col2)]

\* -------------------------------------------------- fill_moving_avg alone
MaxFillLen == 8

\* missing, 1 and 2, of a float64 column or of an Int64 column
FillValues(ty) == {NaN, [ty |-> ty, v |-> One, s |-> <<>>], [ty |-> ty, v |-> 2 * One, s |-> <<>>]}

FillColumns ==
    UNION {[1..n -> FillValues("float")] \cup [1..n -> FillValues("int")] : n \in 1..MaxFillLen}

\* the input frame of test_fill_moving_avg (np.nan makes both columns float64)
TestValue(k) == IF k = 0 THEN NaN ELSE PyFloat(k * One)

TestInput ==
    Frame2([i \in 1..10 |-> TestValue(<<1, 2, 0, 4, 5, 0, 0, 8, 9, 10>>[i])],
           [i \in 1..10 |-> TestValue(<<11, 12, 13, 0, 15, 0, 0, 0, 19, 20>>[i])])

FillFrames == {Frame1(col) : col \in FillColumns} \cup {TestInput}

InitFill == InitCall(FillFrames)

CallFillMovingAvg == Call(fill_moving_avg(arg))

NextFill == CallFillMovingAvg

SpecFill == InitFill /\ [][NextFill]_vars

\* -------------------------------------------------- remove_outliers alone
MaxRun == 10

MaxTail == 2

\* missing, 0.0001, 0.01 and -0.01
OutlierValues == {NaN, PyFloat(1), PyFloat(100), PyFloat(-100)}

\* a run of zeros followed by a few other values
OutlierColumns ==
    {[i \in 1..k |-> PyFloat(0)] \o t :
         k \in 0..MaxRun, t \in UNION {[1..n -> OutlierValues] : n \in 0..MaxTail}} \ {<<>>}

\* the column read from the last row to the first
Reversed(col) == [i \in 1..Len(col) |-> col[Len(col) + 1 - i]]

OutlierFrames == {Frame2(col, Reversed(col)) : col \in OutlierColumns}

InitOutliers == InitCall(OutlierFrames)

CallRemoveOutliers == Call(remove_outliers(arg))

NextOutliers == CallRemoveOutliers

SpecOutliers == InitOutliers /\ [][NextOutliers]_vars

\* ----------------------------------- calculate_days_remaining_month alone
MaxYears == 2

\* every day of a common year and of the leap year after it, and on
AllDates ==
    {Date(y, m, d) : y \in 2023..(2022 + MaxYears), m \in 1..12, d \in 1..31} \
    {dt \in [year : 2023..(2022 + MaxYears), month : 1..12, day : 1..31] :
         dt.day > DaysInMonth(dt.year, dt.month)}

InitDays == InitCall(AllDates)

CallDaysRemainingMonth == Call(calculate_days_remaining_month(arg))

NextDays == CallDaysRemainingMonth

SpecDays == InitDays /\ [][NextDays]_vars

\* ------------------------------------------------- remove_decimals alone
MaxFrac == 2

\* text over the digits 0, 5 and 7, of 1..n characters
DigitTexts(n) == UNION {[1..k -> {"0", "5", "7"}] : k \in 1..n}

\* rendered numbers: an optional sign, an integer part and, behind a decimal
\* point, up to MaxFrac fractional digits (none at all after "7.")
RenderedNumbers ==
    {sign \o whole \o frac :
         sign \in {<<>>, <<"-">>}, whole \in DigitTexts(2),
         frac \in {<<>>, <<".">>} \cup {<<".">> \o f : f \in DigitTexts(MaxFrac)}}

\* the texts the constraint branch and the missing-data branch put in a record
Sentinels == {Yes, No, Dash, <<"n", "a", "n">>}

InitDecimals == InitCall(RenderedNumbers \cup Sentinels)

CallRemoveDecimals == Call(remove_decimals(arg))

NextDecimals == CallRemoveDecimals

SpecDecimals == InitDecimals /\ [][NextDecimals]_vars

\* ------------------------- upload_historical_alerts, the insertion loop
MaxCalls == 3

MaxRows == 3

\* what client.insert_rows does: it returns, or raises NotFound or BadRequest
Outcomes == {"ok", "NotFound", "BadRequest"}

\* rows_to_insert: the records of the new alerts
RowsToInsert == UNION {[1..n -> {MetricName(1), MetricName(2)}] : n \in 0..MaxRows}

\* state at the while of line 202: no insertion tried yet
InitUpload ==
    /\ NoRun
    /\ NoScript
    /\ metrics_info = <<>>
    /\ backend_fails = {}
    /\ arg \in RowsToInsert
    /\ ret = <<>>
    /\ warehouse = [calls |-> 0, last |-> "", rows |-> <<>>]
    /\ pc = "insert"

\* lines 203-209: one insertion; the loop is left unless NotFound was raised
InsertRows ==
    /\ pc = "insert"
    /\ \E outcome \in Outcomes :
           /\ warehouse' = [calls |-> IF warehouse.calls < MaxCalls THEN warehouse.calls + 1
                                      ELSE MaxCalls,
                            last |-> outcome,
                            rows |-> IF outcome = "ok" THEN arg ELSE warehouse.rows]
           /\ pc' = IF outcome = "NotFound" THEN "sleep" ELSE "done"
    /\ UNCHANGED <<inputs, locals, script, backend_fails, metrics_info>>

\* line 207: time.sleep(2), then the next turn of the loop
Sleep ==
    /\ pc = "sleep"
    /\ pc' = "insert"
    /\ UNCHANGED <<inputs, locals, script, collab>>

NextUpload == InsertRows \/ Sleep

\* the loop is sequential code: a step that can be taken is taken; nothing
\* is assumed about the outcomes of the insertions
SpecUpload == InitUpload /\ [][NextUpload]_vars /\ WF_vars(InsertRows) /\ WF_vars(Sleep)

\* ============================================ properties of the helpers
Called == pc = "done"

\* the expected output of test_fill_moving_avg
TestExpected1 == <<1, 2, 2, 4, 5, 4, 4, 8, 9, 10>>

TestExpected2 == <<11, 12, 13, 13, 15, 15, 15, 15, 19, 20>>

\* C12: fill_moving_avg on the input frame of test_fill_moving_avg returns the
\* expected frame of that test, value by value.
C12_TestFixture ==
    (Called /\ arg = TestInput) =>
        \A i \in 1..10 :
            /\ PyEq(ret.cols[MetricName(1)][i], PyInt(TestExpected1[i] * One))
            /\ PyEq(ret.cols[MetricName(2)][i], PyInt(TestExpected2[i] * One))

\* the rows i-6..i of a column that hold a value
TrailingRows(col, i) == {k \in 1..i : k >= i - 6 /\ ~isna(col[k])}

\* x is the mean of the values in the given rows, to the nearest 1/Scale
IsMeanOf(x, col, rows) ==
    2 * Abs(Cardinality(rows) * x - SumOf(col, rows)) <= Cardinality(rows)

\* x is a whole number, and none is nearer to the mean of the values in the
\* given rows
IsRoundedMeanOf(x, col, rows) ==
    /\ x % Scale = 0
    /\ 2 * Abs(Cardinality(rows) * x - SumOf(col, rows)) <= Cardinality(rows) * Scale

\* what column out is to column in for the claim: values kept, a missing value
\* replaced by the mean of the trailing window of in, or by 0 without one;
\* rounded says which columns get the mean as a whole number
FilledFrom(out, in, rounded) ==
    /\ Len(out) = Len(in)
    /\ \A i \in 1..Len(in) :
           IF ~isna(in[i]) THEN out[i] = in[i]
           ELSE IF TrailingRows(in, i) = {} THEN IsNum(out[i]) /\ out[i].v = 0
           ELSE /\ IsNum(out[i])
                /\ IF rounded THEN IsRoundedMeanOf(out[i].v, in, TrailingRows(in, i))
                   ELSE IsMeanOf(out[i].v, in, TrailingRows(in, i))

NonNullCount(col) == Cardinality(NonNullRows(col, 1, Len(col)))

\* C13: remove_outliers is idempotent: applied to its own result it converts
\* no further value.
C13_Idempotent == Called => remove_outliers(ret) = ret

\* C13, amended: remove_outliers is idempotent on every frame whose metric
\* columns hold at most SigmaFactor^2 + 2 = 11 non-null values each.
C13_IdempotentUpToEleven ==
    (/\ Called
     /\ \A m \in DOMAIN arg.cols : NonNullCount(arg.cols[m]) <= SigmaFactor * SigmaFactor + 2)
        => remove_outliers(ret) = ret

\* a column of 11 values lost one in the first pass
C13_Witness ==
    /\ Called
    /\ \A m \in DOMAIN arg.cols : NonNullCount(arg.cols[m]) = SigmaFactor * SigmaFactor + 2
    /\ \E m \in DOMAIN arg.cols : NonNullCount(ret.cols[m]) < NonNullCount(arg.cols[m])
    /\ remove_outliers(ret) = ret

\* n*x is further than 3*sqrt(n*Q - S*S) from S, for the count n, the sum S
\* and the sum of squares Q of the column's non-null values: x is strictly
\* outside [mean - 3*std, mean + 3*std] with the population standard deviation
StrictlyOutside(x, col) ==
    (NonNullCount(col) * x - SumOf(col, NonNullRows(col, 1, Len(col)))) *
    (NonNullCount(col) * x - SumOf(col, NonNullRows(col, 1, Len(col))))
        > 9 * (NonNullCount(col) * SumOfSquares(col, NonNullRows(col, 1, Len(col)))
               - SumOf(col, NonNullRows(col, 1, Len(col)))
                 * SumOf(col, NonNullRows(col, 1, Len(col))))

C14_LastDayAndRemaining ==
    Called =>
        /\ ret[2] = Date(arg.year, arg.month, DaysInMonth(arg.year, arg.month))
        /\ ret[1] = DaysInMonth(arg.year, arg.month) - arg.day + 1
        /\ ret[1] >= 1

\* 2024-02-15 gives 15 days up to 2024-02-29
C14_Witness ==
    /\ Called
    /\ arg = Date(2024, 2, 15)
    /\ ret = <<15, Date(2024, 2, 29)>>

\* where the first decimal point of a text is, 0 if it has none
DotAt(t) ==
    IF \A i \in 1..Len(t) : t[i] # "." THEN 0
    ELSE CHOOSE i \in 1..Len(t) : t[i] = "." /\ \A j \in 1..(i - 1) : t[j] # "."

\* C15: remove_decimals returns the integer part of a rendered number exactly
\* when all of its fractional digits are zero, and the text itself when a
\* fractional digit is not zero or when the text has no decimal point.
C15_IntegerPartIffZeroFraction ==
    Called =>
        ret = IF /\ DotAt(arg) > 0
                 /\ \A i \in (DotAt(arg) + 1)..Len(arg) : arg[i] = "0"
              THEN SubSeq(arg, 1, DotAt(arg) - 1)
              ELSE arg

\* "7.00" became "7"
C15_Witness ==
    /\ Called
    /\ arg = <<"7", ".", "0", "0">>
    /\ ret = <<"7">>

\* ====================================== properties of the Forecast Table
\* the last calendar day of the evaluation date's month
MonthEnd == Date(date.year, date.month, DaysInMonth(date.year, date.month))

\* C19: every row of the Forecast Table has a date on or after the evaluation
\* date and on or before the last day of its month, and a prediction >= 0.
C19_ForecastRowsInMonth ==
    \A k \in 1..Len(future_table.rows) :
        /\ DateLE(date, future_table.rows[k].Date)
        /\ DateLE(future_table.rows[k].Date, MonthEnd)
        /\ IsNum(future_table.rows[k].Prediction)
        /\ future_table.rows[k].Prediction.v >= 0

\* a returned table with a row of the evaluation date, and a row of the
\* month's last day whose negative forecast became 0
C19_Witness ==
    /\ Returned
    /\ ~future_table.none
    /\ \E k, l \in 1..Len(future_table.rows) :
           /\ future_table.rows[k].Date = date
           /\ future_table.rows[k].Prediction.v > 0
           /\ future_table.rows[l].Date = MonthEnd
           /\ future_table.rows[l].Date # date
           /\ backend[metrics[1]].tail < 0
           /\ future_table.rows[l].Prediction.v = 0

\* the rows of the Forecast Table that carry the name of the i-th metric
RowsOf(i) ==
    {k \in 1..Len(future_table.rows) :
         future_table.rows[k].Metric = replace_underscore(metrics[i])}

\* the position in the iteration order of the metric a row belongs to
MetricIndexOf(row) == CHOOSE i \in 1..Len(metrics) : replace_underscore(metrics[i]) = row.Metric

HistoryEndsDayBefore == NextDay(data.date[Len(data.date)]) = date

\* the days from the evaluation date through the last day of its month
RestOfMonth == {Date(date.year, date.month, d) : d \in date.day..MonthEnd.day}

\* C20: when the history ends on the day before the evaluation date, the
\* returned Forecast Table has, for each numeric-method metric, exactly one row
\* per day from the evaluation date through the last day of its month, and its
\* rows are ordered by metric in iteration order and by ascending date within
\* a metric.
C20_OneRowPerDayInOrder ==
    (Returned /\ ~future_table.none /\ HistoryEndsDayBefore) =>
        /\ \A i \in 1..Len(metrics) :
               IsNumericMethod(i) =>
                   /\ \A d \in RestOfMonth :
                          Cardinality({k \in RowsOf(i) : future_table.rows[k].Date = d}) = 1
                   /\ \A k \in RowsOf(i) : future_table.rows[k].Date \in RestOfMonth
        /\ \A k, l \in 1..Len(future_table.rows) :
               k < l =>
                   /\ MetricIndexOf(future_table.rows[k]) <= MetricIndexOf(future_table.rows[l])
                   /\ future_table.rows[k].Metric = future_table.rows[l].Metric
                          => DateKey(future_table.rows[k].Date) < DateKey(future_table.rows[l].Date)

\* two numeric-method metrics, two days each
C20_Witness ==
    /\ Returned
    /\ ~future_table.none
    /\ HistoryEndsDayBefore
    /\ Len(metrics) = 2
    /\ IsNumericMethod(1) /\ IsNumericMethod(2)
    /\ Cardinality(RestOfMonth) = 2
    /\ Len(future_table.rows) = 4

\* ================================== properties of the remaining claims
\* the forecasting library has raised for a metric of the run
BackendFailed == \E k \in 1..Len(fit_calls) : fit_calls[k] \in backend_fails

\* C21: a failure of the forecasting backend for one metric does not abort the
\* run: the call does not end with the backend's exception.
C21_BackendFailureNotFatal == BackendFailed => ~(pc = "raised" /\ error = "BackendError")

\* the i-th and the j-th metric have the same history column, the same Model
\* Parameters (but for the name), the same actual value and the same forecast
SameOwnInputs(i, j) ==
    /\ data.cols[metrics[i]] = data.cols[metrics[j]]
    /\ ParamRow(metrics[i]).method = ParamRow(metrics[j]).method
    /\ ParamRow(metrics[i]).isRelated = ParamRow(metrics[j]).isRelated
    /\ ParamRow(metrics[i]).sendAlert = ParamRow(metrics[j]).sendAlert
    /\ real_value_table[metrics[i]] = real_value_table[metrics[j]]
    /\ backend[metrics[i]] = backend[metrics[j]]

\* the Forecast Table rows of the i-th metric, without the metric's name
ForecastOf(i) ==
    [k \in 1..Len(SelectSeq(future_table.rows,
                            LAMBDA r : r.Metric = replace_underscore(metrics[i]))) |->
         [Date |-> SelectSeq(future_table.rows,
                             LAMBDA r : r.Metric = replace_underscore(metrics[i]))[k].Date,
          Prediction |-> SelectSeq(future_table.rows,
                                   LAMBDA r : r.Metric = replace_underscore(metrics[i]))[k].Prediction]]

\* C22: what a run produces for a metric depends only on the metric's own
\* history column, Model Parameters, actual value and the global flags: two
\* metrics of a run that agree on all of these get, but for the name, the same
\* Alert Record and the same Forecast Table rows, whatever precedes them.
C22_OwnInputsOnly ==
    Returned =>
        \A i, j \in 1..Len(metrics) :
            SameOwnInputs(i, j) =>
                /\ [Rec(i) EXCEPT !.Metric = <<>>] = [Rec(j) EXCEPT !.Metric = <<>>]
                /\ ForecastOf(i) = ForecastOf(j)

\* the steps of the script in their order; "raised" ends a run at any step
StepRank(stage) ==
    CASE stage = "split" -> 0
      [] stage = "outliers" -> 1
      [] stage = "fill" -> 2
      [] stage = "loop" -> 3
      [] stage = "returned" -> 4
      [] stage = "surfaced" -> 5
      [] OTHER -> 6

\* the frame after the step is the downloaded frame without its last row, the
\* row of the evaluation date, whatever the values of its metric columns
HistoryOnly(frame) ==
    /\ frame.date = SubSeq(downloaded.date, 1, Len(downloaded.date) - 1)
    /\ \A k \in 1..Len(frame.date) : frame.date[k] # date
    /\ DOMAIN frame.cols = DOMAIN downloaded.cols
    /\ \A m \in DOMAIN frame.cols : Len(frame.cols[m]) = Len(downloaded.cols[m]) - 1

\* the actual values are those of the last row of the downloaded frame
ActualRowIntact(table) ==
    /\ DOMAIN table = DOMAIN downloaded.cols
    /\ \A m \in DOMAIN table : table[m] = downloaded.cols[m][Len(downloaded.cols[m])]

\* C23: in every run the split, remove_outliers, fill_moving_avg and the
\* forecasting and decisioning happen in this order, each once; from the split
\* on the actual-value row is the downloaded one, and the frame that is
\* imputed and then fitted on never holds the row of the evaluation date.
C23_StepsInOrder ==
    [][/\ pc' # pc => (pc' = "raised" \/ StepRank(pc') = StepRank(pc) + 1)
       /\ (pc = "loop" /\ pc' = "loop") => idx' = idx + 1
       /\ StepRank(pc') \in 1..5 => (ActualRowIntact(real_value_table') /\ HistoryOnly(data'))
       /\ fit_calls' # fit_calls => (pc = "loop" /\ HistoryOnly(data))]_vars

\* a run got through every step; the imputer filled the history of a metric
\* whose actual value is missing and left the actual value missing
C23_Witness ==
    /\ pc = "surfaced"
    /\ fit_calls # <<>>
    /\ \E m \in DOMAIN downloaded.cols :
           /\ isna(downloaded.cols[m][1])
           /\ ~isna(data.cols[m][1])
           /\ isna(real_value_table[m])

\* the frame has one row for each day of the window and no other row
OneRowPerDay(frame) ==
    /\ Len(frame.date) = HistLen + 1
    /\ \A i, j \in 1..Len(frame.date) : i # j => frame.date[i] # frame.date[j]
    /\ \A x \in 0..HistLen : \E i \in 1..Len(frame.date) : frame.date[i] = SubDays(date, x)

\* the source of the i-th configured metric returned a date more than once
DuplicatedDates(i) ==
    \E k, l \in 1..Len(metrics_info[i].raw) :
        k # l /\ metrics_info[i].raw[k].date = metrics_info[i].raw[l].date

Undecided == MethodDispatch(metrics[idx + 1])

\* the record the loop has just appended
Appended == alerts_table'[Len(alerts_table')]

\* C25: the record appended for a metric carries the prediction, the actual
\* value, the limits and the detail the method dispatch produced, whatever
\* sendAlert is; its state code differs from the dispatch's only for a metric
\* with sendAlert False, and is 2 then.
C25_OverrideOnlyState ==
    [][(pc = "loop" /\ Len(alerts_table') = Len(alerts_table) + 1) =>
           /\ Appended.Prediction = Undecided.pred
           /\ Appended.Real = Undecided.real
           /\ Appended.LimInf = Undecided.liminf
           /\ Appended.LimSup = Undecided.limsup
           /\ Appended.Details = Undecided.details
           /\ Appended.Alert # Undecided.is_alert =>
                  /\ ParamRow(metrics[idx + 1]).sendAlert = "False"
                  /\ Appended.Alert.v = 2 * One]_vars

\* a returned run with a forecast metric in alert whose sendAlert is False:
\* code 2, with the detail of the alert
C25_Witness ==
    /\ Returned
    /\ \E i \in 1..Len(metrics) :
           /\ IsNumericMethod(i)
           /\ SendAlertOf(i) = "False"
           /\ Rec(i).Alert.v = 2 * One
           /\ Rec(i).Details # ""
           /\ Rec(i).Details # MissingDetails

\* C26: a run started with --force-alert True does not stop at the forcing
\* of the alerts, and the table of alerts it surfaces has at least one row.
C26_ForcedRunSurfacesAlert ==
    force_alert =>
        /\ ~(pc = "raised" /\ error = "IndexError")
        /\ pc = "surfaced" => Len(only_alerts_table) >= 1

\* C27: the frame fill_moving_avg returns has the date column, the metric
\* columns and the row count of the frame it was given, and none of its
\* metric values is missing.
C27_NothingMissing ==
    Called =>
        /\ ret.date = arg.date
        /\ DOMAIN ret = DOMAIN arg
        /\ DOMAIN ret.cols = DOMAIN arg.cols
        /\ \A m \in DOMAIN ret.cols :
               /\ Len(ret.cols[m]) = Len(arg.cols[m])
               /\ \A k \in 1..Len(ret.cols[m]) : ~isna(ret.cols[m][k])

\* a column missing on its first two days and on a later day, the first two
\* filled with 0 and the later one with a value
C27_Witness ==
    /\ Called
    /\ \E m \in DOMAIN arg.cols :
           /\ Len(arg.cols[m]) >= 4
           /\ isna(arg.cols[m][1]) /\ isna(arg.cols[m][2])
           /\ ~isna(arg.cols[m][3]) /\ isna(arg.cols[m][4])
           /\ ret.cols[m][1].v = 0 /\ ret.cols[m][2].v = 0
           /\ ret.cols[m][4].v > 0

\* C28: the state code of every record of the returned table is 0, 1 or 2,
\* and it is 2 only for a metric whose sendAlert is False.
C28_StateCodes ==
    Returned =>
        \A i \in 1..Len(alerts_table) :
            /\ Rec(i).Alert.v \in {0, One, 2 * One}
            /\ Rec(i).Alert.v = 2 * One => SendAlertOf(i) = "False"

\* C29: the record of a metric whose actual value is defined does not read
\* "No data", and has the state code 2 when the metric's sendAlert is False.
C29_NoDataOnlyWhenUndefined ==
    Returned =>
        \A i \in 1..Len(alerts_table) :
            ~isna(Actual(i)) =>
                /\ Rec(i).Real # PyStr(NoData)
                /\ SendAlertOf(i) = "False" => Rec(i).Alert.v = 2 * One

\* C30: whatever the outcomes of the insertions, the loop of
\* upload_historical_alerts is eventually left, and it is left exactly when
\* an insertion returned or raised BadRequest, an insertion that raised
\* NotFound being followed by the sleep and another insertion.
C30_UploadTerminates ==
    /\ <>(pc = "done")
    /\ [](pc = "done" <=> warehouse.last \in {"ok", "BadRequest"})
    /\ [](pc = "sleep" => warehouse.last = "NotFound")

====
